---------------------------- MODULE Spec2Model ----------------------------
(* A model of the ErrorCache plugin pair:                                  *)
(*   hooks-errorcache : ErrorCacheHook, ErrorCacheClient, the extractor    *)
(*   tool-errorcache  : ErrorCacheTool, ErrorCacheAPI                      *)
(* Texts are TLA+ strings; a character of a text is a string of length 1.  *)
EXTENDS Integers, Sequences, FiniteSets, TLC

VARIABLES
    auto_search,     \* ErrorCacheHook.auto_search
    auto_submit,     \* ErrorCacheHook.auto_submit
    tracked_errors,  \* ErrorCacheHook.tracked_errors : key -> [error_text, tool_name]
    hookLog,         \* every remote request the hook instance has issued, in order
    nEvents,         \* number of hook events delivered so far
    hookCall,        \* the last hook handler invocation: its event and its outcome
    toolCall,        \* the last ErrorCacheTool.execute invocation: input, requests, result
    fnCall,          \* a call of one of the stateless functions: its arguments and result
    handlers         \* the handler invocations the host has started, when they may overlap

vars == <<auto_search, auto_submit, tracked_errors, hookLog, nEvents, hookCall, toolCall, fnCall,
          handlers>>

hookVars == <<auto_search, auto_submit, tracked_errors, hookLog, nEvents, hookCall>>

-----------------------------------------------------------------------------
(* Characters and character classes (Python str / re semantics, ASCII).    *)

Ch(s, i) == SubSeq(s, i, i)

Min(S) == CHOOSE m \in S : \A n \in S : m <= n

Max(S) == CHOOSE m \in S : \A n \in S : m >= n

UpperSeq == "ABCDEFGHIJKLMNOPQRSTUVWXYZ"

LowerSeq == "abcdefghijklmnopqrstuvwxyz"

DigitSeq == "0123456789"

UpperSet == {Ch(UpperSeq, i) : i \in 1..Len(UpperSeq)}

LowerSet == {Ch(LowerSeq, i) : i \in 1..Len(LowerSeq)}

DigitSet == {Ch(DigitSeq, i) : i \in 1..Len(DigitSeq)}

\* \w of the re module
WordSet == UpperSet \cup LowerSet \cup DigitSet \cup {"_"}

\* the class [\w./\\-] of the file-path pattern
PathSet == WordSet \cup {".", "/", "\\", "-"}

\* what str.strip() removes
WhitespaceSet == {" ", "\n", "\r", "\t"}

\* where str.splitlines() breaks ("\r\n" counts once)
LineBreakSet == {"\n", "\r"}

LowerMap == [c \in UpperSet |-> Ch(LowerSeq, CHOOSE i \in 1..Len(UpperSeq) : Ch(UpperSeq, i) = c)]

LowerCh(c) == IF c \in UpperSet THEN LowerMap[c] ELSE c

\* s[i..j] in lower case, by halves
RECURSIVE LowerRange(_, _, _)
LowerRange(s, i, j) ==
    IF i > j THEN ""
    ELSE IF i = j THEN LowerCh(Ch(s, i))
    ELSE LowerRange(s, i, (i + j) \div 2) \o LowerRange(s, (i + j) \div 2 + 1, j)

\* str.lower()
Lower(s) == LowerRange(s, 1, Len(s))

\* str.strip()
Strip(s) ==
    LET keep == {i \in 1..Len(s) : Ch(s, i) \notin WhitespaceSet}
    IN  IF keep = {} THEN "" ELSE SubSeq(s, Min(keep), Max(keep))

\* s[:n] for n >= 0
Prefix(s, n) == SubSeq(s, 1, IF n < Len(s) THEN n ELSE Len(s))

\* s[a:b] with 0-based a, b already clipped to 0..len(s)
Slice(s, a, b) == SubSeq(s, a + 1, b)

\* the last index j >= i - 1 such that every character of s[i..j] is in class S
RunEnd(s, i, S) ==
    Max({j \in (i - 1)..Len(s) : \A k \in i..j : Ch(s, k) \in S})

\* s has the literal lit at 1-based index i
HasAt(s, i, lit) ==
    /\ i >= 1
    /\ i + Len(lit) - 1 <= Len(s)
    /\ SubSeq(s, i, i + Len(lit) - 1) = lit

\* the same, ignoring case (re.IGNORECASE)
HasAtI(s, i, lit) ==
    /\ i >= 1
    /\ i + Len(lit) - 1 <= Len(s)
    /\ \A k \in 1..Len(lit) : LowerCh(Ch(s, i + k - 1)) = LowerCh(Ch(lit, k))

-----------------------------------------------------------------------------
(* ErrorCacheHook._error_key                                               *)

\* the alternation (py|js|ts|rs|go|rb|java|c|cpp|h), tried in this order
FileExtensions == <<"py", "js", "ts", "rs", "go", "rb", "java", "c", "cpp", "h">>

\* length of the first alternative that matches right after the dot at d, or 0
ExtLenAt(s, d) ==
    LET ok == {k \in 1..Len(FileExtensions) : HasAt(s, d + 1, FileExtensions[k])}
    IN  IF ok = {} THEN 0 ELSE Len(FileExtensions[Min(ok)])

\* /[\w./\\-]+\.(py|...|h) matched at i: index of the last matched character, or 0.
\* The greedy class run backtracks to the last dot that an extension follows.
FileMatchEnd(s, i) ==
    IF Ch(s, i) # "/" THEN 0
    ELSE LET runEnd == RunEnd(s, i + 1, PathSet)
             dots   == {d \in (i + 2)..runEnd : Ch(s, d) = "." /\ ExtLenAt(s, d) > 0}
         IN  IF dots = {} THEN 0 ELSE Max(dots) + ExtLenAt(s, Max(dots))

\* :\d+:\d+ matched at i
LineColMatchEnd(s, i) ==
    IF Ch(s, i) # ":" THEN 0
    ELSE LET a == RunEnd(s, i + 1, DigitSet)
         IN  IF a < i + 1 \/ ~HasAt(s, a + 1, ":") THEN 0
             ELSE LET b == RunEnd(s, a + 2, DigitSet)
                  IN  IF b < a + 2 THEN 0 ELSE b

\* line \d+ (IGNORECASE) matched at i
LineNoMatchEnd(s, i) ==
    IF ~HasAtI(s, i, "line ") THEN 0
    ELSE LET b == RunEnd(s, i + 5, DigitSet)
         IN  IF b < i + 5 THEN 0 ELSE b

MatchEnd(pat, s, i) ==
    CASE pat = "file"    -> FileMatchEnd(s, i)
      [] pat = "linecol" -> LineColMatchEnd(s, i)
      [] pat = "lineno"  -> LineNoMatchEnd(s, i)

Replacement(pat) ==
    CASE pat = "file"    -> "<FILE>"
      [] pat = "linecol" -> ":<N>"
      [] pat = "lineno"  -> "line <N>"

\* re.sub: leftmost non-overlapping matches, replaced left to right
RECURSIVE ReSubFrom(_, _, _)
ReSubFrom(pat, s, i) ==
    LET hits == {k \in i..Len(s) : MatchEnd(pat, s, k) > 0}
    IN  IF hits = {} THEN SubSeq(s, i, Len(s))
        ELSE SubSeq(s, i, Min(hits) - 1) \o Replacement(pat)
                 \o ReSubFrom(pat, s, MatchEnd(pat, s, Min(hits)) + 1)

ReSub(pat, s) == ReSubFrom(pat, s, 1)

KEY_MAX == 200

_error_key(text) ==
    LET c1 == ReSub("file", text)
        c2 == ReSub("linecol", c1)
        c3 == ReSub("lineno", c2)
    IN  Lower(Strip(Prefix(c3, KEY_MAX)))

-----------------------------------------------------------------------------
(* ERROR_PATTERNS and _extract_error_text                                  *)

\* first alternative of alts (in order) found at i: index of its last character, or 0
LitAltEnd(s, i, alts, ignorecase) ==
    LET ok == {k \in 1..Len(alts) :
                  IF ignorecase THEN HasAtI(s, i, alts[k]) ELSE HasAt(s, i, alts[k])}
    IN  IF ok = {} THEN 0 ELSE i + Len(alts[Min(ok)]) - 1

\* error\[E\d+\] (IGNORECASE)
RustCodeEnd(s, i) ==
    IF ~HasAtI(s, i, "error[E") THEN 0
    ELSE LET b == RunEnd(s, i + 7, DigitSet)
         IN  IF b >= i + 7 /\ HasAt(s, b + 1, "]") THEN b + 1 ELSE 0

\* ERR_[A-Z_]+
NodeCodeEnd(s, i) ==
    IF ~HasAt(s, i, "ERR_") THEN 0
    ELSE LET b == RunEnd(s, i + 4, UpperSet \cup {"_"})
         IN  IF b >= i + 4 THEN b ELSE 0

\* error TS\d+:
TsCodeEnd(s, i) ==
    IF ~HasAt(s, i, "error TS") THEN 0
    ELSE LET b == RunEnd(s, i + 8, DigitSet)
         IN  IF b >= i + 8 /\ HasAt(s, b + 1, ":") THEN b + 1 ELSE 0

\* FAILED.*tests?|tests? FAILED (IGNORECASE); "." matches anything but "\n"
FailedTestsEnd(s, i) ==
    IF HasAtI(s, i, "FAILED")
    THEN LET dotEnd == RunEnd(s, i + 6, {Ch(s, k) : k \in 1..Len(s)} \ {"\n"})
             starts == {t \in (i + 6)..(dotEnd - 3) : HasAtI(s, t, "test")}
         IN  IF starts = {} THEN 0
             ELSE IF HasAtI(s, Max(starts) + 4, "s") THEN Max(starts) + 4
             ELSE Max(starts) + 3
    ELSE LitAltEnd(s, i, <<"tests FAILED", "test FAILED">>, TRUE)

NumPatterns == 9

\* ERROR_PATTERNS[p - 1] matched at i: index of the last matched character, or 0
PatternMatchEnd(p, s, i) ==
    CASE p = 1 -> LitAltEnd(s, i, <<"Traceback (most recent call last)">>, TRUE)
      [] p = 2 -> LitAltEnd(s, i, <<"Error:", "Exception:", "FAILED:", "FATAL:">>, TRUE)
      [] p = 3 -> RustCodeEnd(s, i)
      [] p = 4 -> NodeCodeEnd(s, i)
      [] p = 5 -> LitAltEnd(s, i, <<"ECONNREFUSED", "ENOENT", "EACCES", "EPERM">>, FALSE)
      [] p = 6 -> LitAltEnd(s, i, <<"ModuleNotFoundError", "ImportError", "SyntaxError",
                                   "TypeError", "ValueError">>, FALSE)
      [] p = 7 -> TsCodeEnd(s, i)
      [] p = 8 -> FailedTestsEnd(s, i)
      [] p = 9 -> LitAltEnd(s, i, <<"Build failed", "Compilation failed",
                                   "Cannot find module">>, TRUE)

\* p.search(s): the 1-based start of the leftmost match, or 0
PatternSearch(p, s) ==
    LET hits == {i \in 1..Len(s) : PatternMatchEnd(p, s, i) > 0}
    IN  IF hits = {} THEN 0 ELSE Min(hits)

\* any(p.search(line) for p in ERROR_PATTERNS)
AnyPattern(line) == \E p \in 1..NumPatterns : PatternSearch(p, line) > 0

\* str.splitlines()
RECURSIVE SplitLinesFrom(_, _)
SplitLinesFrom(s, i) ==
    IF i > Len(s) THEN <<>>
    ELSE LET brs == {j \in i..Len(s) : Ch(s, j) \in LineBreakSet}
         IN  IF brs = {} THEN <<SubSeq(s, i, Len(s))>>
             ELSE LET j == Min(brs)
                      next == IF Ch(s, j) = "\r" /\ HasAt(s, j + 1, "\n") THEN j + 2 ELSE j + 1
                  IN  <<SubSeq(s, i, j - 1)>> \o SplitLinesFrom(s, next)

SplitLines(s) == SplitLinesFrom(s, 1)

\* "\n".join(lines)
RECURSIVE JoinLines(_)
JoinLines(lines) ==
    IF lines = <<>> THEN ""
    ELSE IF Len(lines) = 1 THEN lines[1]
    ELSE lines[1] \o "\n" \o JoinLines(Tail(lines))

MAX_ERROR_LINES == 10

\* CaptureLoop starting to capture on the line after the trigger line
RECURSIVE CaptureLoop_SkipTrigger(_, _, _, _)
CaptureLoop_SkipTrigger(lines, k, capture, error_lines) ==
    IF k > Len(lines) THEN error_lines
    ELSE LET acc == IF capture THEN Append(error_lines, lines[k]) ELSE error_lines
         IN  IF capture /\ Len(acc) >= MAX_ERROR_LINES THEN acc
             ELSE CaptureLoop_SkipTrigger(lines, k + 1, capture \/ AnyPattern(lines[k]), acc)

\* CaptureLoop stopping one line late
RECURSIVE CaptureLoop_OffByOne(_, _, _, _)
CaptureLoop_OffByOne(lines, k, capture, error_lines) ==
    IF k > Len(lines) THEN error_lines
    ELSE LET cap == capture \/ AnyPattern(lines[k])
             acc == IF cap THEN Append(error_lines, lines[k]) ELSE error_lines
         IN  IF cap /\ Len(acc) > MAX_ERROR_LINES THEN acc
             ELSE CaptureLoop_OffByOne(lines, k + 1, cap, acc)

\* the capture loop over lines[k..]
RECURSIVE CaptureLoop(_, _, _, _)
CaptureLoop(lines, k, capture, error_lines) ==
    IF k > Len(lines) THEN error_lines
    ELSE LET cap == capture \/ AnyPattern(lines[k])
             acc == IF cap THEN Append(error_lines, lines[k]) ELSE error_lines
         IN  IF cap /\ Len(acc) >= MAX_ERROR_LINES THEN acc
             ELSE CaptureLoop(lines, k + 1, cap, acc)

CONTEXT_BEFORE == 200

CONTEXT_AFTER == 500

\* ContextWindow measuring the text after the match from m.start()
ContextWindow_FromStart(output, mstart, mend) ==
    Strip(Slice(output,
                IF mstart - CONTEXT_BEFORE > 0 THEN mstart - CONTEXT_BEFORE ELSE 0,
                IF mstart + CONTEXT_AFTER < Len(output) THEN mstart + CONTEXT_AFTER ELSE Len(output)))

\* output[max(0, m.start() - 200) : min(len(output), m.end() + 500)].strip()
ContextWindow(output, mstart, mend) ==
    Strip(Slice(output,
                IF mstart - CONTEXT_BEFORE > 0 THEN mstart - CONTEXT_BEFORE ELSE 0,
                IF mend + CONTEXT_AFTER < Len(output) THEN mend + CONTEXT_AFTER ELSE Len(output)))

\* the window around the match of pattern p that starts at 0-based mstart
MatchWindow(output, p, mstart) ==
    ContextWindow(output, mstart, PatternMatchEnd(p, output, mstart + 1))

\* the fallback: the first pattern, in list order, found anywhere in the output
FallbackPattern(output, found) ==
    IF found = {} THEN [found |-> FALSE, text |-> ""]
    ELSE [found |-> TRUE,
          text |-> MatchWindow(output, Min(found), PatternSearch(Min(found), output) - 1)]

FallbackWindow(output) ==
    FallbackPattern(output, {p \in 1..NumPatterns : PatternSearch(p, output) > 0})

\* the result is [found, text]; found = FALSE is None
ExtractResult(output, error_lines) ==
    IF error_lines # <<>> THEN [found |-> TRUE, text |-> JoinLines(error_lines)]
    ELSE FallbackWindow(output)

_extract_error_text(output) ==
    ExtractResult(output, CaptureLoop(SplitLines(Strip(output)), 1, FALSE, <<>>))

-----------------------------------------------------------------------------
(* Python values as the handlers see them (event data, decoded JSON):      *)
(* a value is a record tagged with its Python type.                        *)

PNone == [t |-> "none"]

PBool(b) == [t |-> "bool", v |-> b]

PInt(n) == [t |-> "int", v |-> n]

PStr(s) == [t |-> "str", v |-> s]

PList(q) == [t |-> "list", v |-> q]

PDict(f) == [t |-> "dict", v |-> f]

EmptyDict == PDict([k \in {} |-> PNone])

\* bool(x)
Truthy(x) ==
    CASE x.t = "none" -> FALSE
      [] x.t = "bool" -> x.v
      [] x.t = "int"  -> x.v # 0
      [] x.t = "str"  -> x.v # ""
      [] x.t = "list" -> Len(x.v) > 0
      [] x.t = "dict" -> DOMAIN x.v # {}

\* d.get(k, default) on a dict
Get(d, k, default) == IF k \in DOMAIN d.v THEN d.v[k] ELSE default

RECURSIVE NatToStr(_)
NatToStr(n) == IF n < 10 THEN Ch(DigitSeq, n + 1) ELSE NatToStr(n \div 10) \o Ch(DigitSeq, (n % 10) + 1)

\* str(x) / f"{x}" for the scalar types
PyStr(x) ==
    CASE x.t = "str"  -> x.v
      [] x.t = "none" -> "None"
      [] x.t = "bool" -> IF x.v THEN "True" ELSE "False"
      [] x.t = "int"  -> IF x.v < 0 THEN "-" \o NatToStr(0 - x.v) ELSE NatToStr(x.v)

\* _get_output_text(result)
_get_output_text(result) ==
    IF result.t = "str" THEN result.v
    ELSE IF result.t = "dict"
    THEN LET output == Get(result, "output", PStr(""))
         IN  IF output.t = "str" THEN output.v
             ELSE IF output.t = "dict"
             THEN LET out == IF Truthy(Get(output, "stdout", PNone))
                             THEN <<PyStr(output.v["stdout"])>> ELSE <<>>
                      err == IF Truthy(Get(output, "stderr", PNone))
                             THEN <<PyStr(output.v["stderr"])>> ELSE <<>>
                  IN  JoinLines(out \o err)
             ELSE PyStr(output)
    ELSE PyStr(result)

-----------------------------------------------------------------------------
(* The remote service as one call sees it, and ErrorCacheClient.search     *)

\* urlopen raised (unreachable, timeout, HTTP error status)
TransportError == [t |-> "error"]

\* a body json.loads rejects
Unparseable == [t |-> "body", parsed |-> FALSE, json |-> PNone]

\* a body that decodes to the value j
Body(j) == [t |-> "body", parsed |-> TRUE, json |-> j]

SEARCH_SIG_MAX == 500

\* the GET that ErrorCacheClient.search issues
SearchRequest(error_text, limit) ==
    [method |-> "GET", endpoint |-> "/search/similar",
     error_signature |-> Prefix(error_text, SEARCH_SIG_MAX), limit |-> limit]

\* ClientSearchRequests with one retry after a transport error
ClientSearchRequests_Retry(error_text, limit, resp) ==
    IF resp.t = "error"
    THEN <<SearchRequest(error_text, limit), SearchRequest(error_text, limit)>>
    ELSE <<SearchRequest(error_text, limit)>>

\* the requests one call of ErrorCacheClient.search issues, the remote answering resp
ClientSearchRequests(error_text, limit, resp) == <<SearchRequest(error_text, limit)>>

\* what ErrorCacheClient.search returns for the remote behaviour resp
ClientSearchResult(resp) ==
    IF resp.t = "error" \/ ~resp.parsed THEN <<>>
    ELSE LET data == resp.json
         IN  IF data.t = "list" THEN data.v
             ELSE IF data.t = "dict"
             THEN LET results == Get(data, "data", PList(<<>>))
                  IN  IF results.t = "list" THEN results.v ELSE <<>>
             ELSE <<>>   \* data.get raises AttributeError, caught

-----------------------------------------------------------------------------
(* The events and remote behaviours the hook is exercised with             *)

MaxEvents == 3

Q1 == PDict([id |-> PStr("q1"), title |-> PStr("bad value"), status |-> PStr("open"),
             best_answer |-> PDict([id |-> PStr("a1"), root_cause |-> PStr("stale cache"),
                                    fix_approach |-> PStr("clear it"),
                                    patch_or_commands |-> PList(<<PStr("make clean")>>)])])

Q2 == PDict([id |-> PStr("q2"), title |-> PStr("missing file")])

Q3 == PDict([id |-> PStr("q3")])

Q4 == PDict([title |-> PStr("no id")])

\* solutions whose shape the formatting code does not expect
QTextAnswer == PDict([id |-> PStr("q5"), best_answer |-> PStr("see the docs")])

QIntCommand == PDict([id |-> PStr("q6"),
                      best_answer |-> PDict([patch_or_commands |-> PList(<<PInt(1)>>)])])

HookResponses ==
    << TransportError,
       Unparseable,
       Body(PNone),
       Body(PDict([message |-> PStr("ok")])),
       Body(PDict([data |-> PList(<<>>)])),
       Body(PDict([data |-> PStr("nothing")])),
       Body(PDict([data |-> PList(<<Q1>>)])),
       Body(PList(<<Q2, Q3, Q4, Q1>>)),
       Body(PList(<<PInt(7)>>)),
       Body(PList(<<QTextAnswer>>)),
       Body(PDict([data |-> PList(<<Q1, QIntCommand>>)])) >>

ErrorEvents ==
    << PDict([tool_name |-> PStr("bash"),
              error |-> PDict([type |-> PStr("ValueError"),
                               msg |-> PStr("bad value in /a/x.py:3:7")])]),
       PDict([tool_name |-> PStr("read_file"),
              error |-> PDict([type |-> PStr("ValueError"),
                               msg |-> PStr("bad value in /b/lib/y.py:10:2")])]),
       PDict([error |-> PDict([msg |-> PStr("no such file")])]),
       PDict([tool_name |-> PStr("bash")]) >>

PostEvents ==
    << PDict([tool_name |-> PStr("bash"),
              result |-> PStr("build ok\nValueError: bad value in /c/z.py:1:1\n")]),
       PDict([tool_name |-> PStr("bash"),
              result |-> PDict([success |-> PBool(TRUE),
                                output |-> PStr("all 12 checks passed, nothing to do")])]),
       PDict([tool_name |-> PStr("bash"),
              result |-> PDict([success |-> PBool(FALSE),
                                output |-> PDict([stdout |-> PStr(""),
                                                  stderr |-> PStr("npm ERR_MODULE_NOT_FOUND at line 12")])])]),
       PDict([tool_name |-> PStr("read_file"),
              result |-> PDict([output |-> PStr("Error: no such file, giving up")])]),
       PDict([tool_name |-> PStr("shell"),
              result |-> PDict([output |-> PStr("Error: no such file")])]),
       PDict([tool_name |-> PStr("run_command"),
              result |-> PDict([success |-> PBool(FALSE),
                                output |-> PStr("Error: no such file \n")])]),
       PDict([tool_name |-> PStr("unknown"), result |-> PDict([output |-> PInt(0)])]),
       PDict([k \in {} |-> PNone]) >>

-----------------------------------------------------------------------------
(* The extractor and the key function, tabulated once over the texts the   *)
(* events above carry (the tables hold the operators' own values).         *)

PostOutputs ==
    {_get_output_text(Get(PostEvents[i], "result", EmptyDict)) : i \in 1..Len(PostEvents)}

ExtractTable == [o \in PostOutputs |-> _extract_error_text(o)]

ErrorEventText(data) ==
    LET error_info == Get(data, "error", EmptyDict)
    IN  PyStr(Get(error_info, "type", PStr("Error"))) \o ": "
            \o PyStr(Get(error_info, "msg", PStr("")))

ErrorTexts ==
    {ErrorEventText(ErrorEvents[i]) : i \in 1..Len(ErrorEvents)}
        \cup {ExtractTable[o].text : o \in PostOutputs}

KeyTable == [t \in ErrorTexts |-> _error_key(t)]

\* _extract_error_text(output), from the table when output is tabulated
ExtractOf(output) ==
    IF output \in PostOutputs THEN ExtractTable[output] ELSE _extract_error_text(output)

\* self._error_key(text), from the table when text is tabulated
KeyOf(text) == IF text \in ErrorTexts THEN KeyTable[text] ELSE _error_key(text)

-----------------------------------------------------------------------------
(* ErrorCacheHook                                                          *)

HOOK_SEARCH_LIMIT == 3

MAX_SHOWN == 3

\* formatting one solution raises (q.get / ba.get on a non-dict, join of non-str)
EntryRaises(q) ==
    \/ q.t # "dict"
    \/ LET ba == Get(q, "best_answer", PNone)
       IN  /\ Truthy(ba)
           /\ \/ ba.t # "dict"
              \/ LET cmds == Get(ba, "patch_or_commands", PNone)
                 IN  /\ Truthy(cmds)
                     /\ cmds.t = "list"
                     /\ \E j \in 1..Len(cmds.v) : cmds.v[j].t # "str"

\* the formatting loop over solutions[:3] raises
FormatRaises(solutions) ==
    \E i \in 1..Len(Prefix(solutions, MAX_SHOWN)) : EntryRaises(solutions[i])

\* the sections of the injected context, one per solution shown
FormatSections(solutions) ==
    [i \in 1..Len(Prefix(solutions, MAX_SHOWN)) |->
        [title |-> PyStr(Get(solutions[i], "title", PStr("Untitled"))),
         link  |-> IF Truthy(Get(solutions[i], "id", PStr("")))
                   THEN "https://errorcache.com/questions/" \o PyStr(solutions[i].v["id"])
                   ELSE ""]]

ContinueResult == [action |-> "continue", found |-> 0, sections |-> <<>>]

\* ResolveRequests submitting the resolved errors (client.submit's first POST)
ResolveRequests_Submit(resolved) ==
    IF resolved = {} THEN <<>> ELSE <<[method |-> "POST", endpoint |-> "/questions"]>>

\* the requests the resolution step of handle_tool_post issues for resolved errors
ResolveRequests(resolved) == <<>>

\* what _search_and_inject returns once the search has answered
InjectOutcome(solutions) ==
    IF solutions = <<>>
    THEN [solutions |-> 0, outcome |-> "returned", result |-> ContinueResult]
    ELSE IF FormatRaises(solutions)
    THEN [solutions |-> Len(solutions), outcome |-> "raised", result |-> ContinueResult]
    ELSE [solutions |-> Len(solutions), outcome |-> "returned",
          result |-> [action |-> "inject_context", found |-> Len(solutions),
                      sections |-> FormatSections(solutions)]]

\* Track on a map that forgets the entries it held
Track_Replace(tracked, key, error_text, tool_name) ==
    [k \in {key} |-> [error_text |-> error_text, tool_name |-> tool_name]]

\* self.tracked_errors[key] = {"error_text": ..., "tool_name": ...}
Track(tracked, key, error_text, tool_name) ==
    [k \in DOMAIN tracked \cup {key} |->
        IF k = key THEN [error_text |-> error_text, tool_name |-> tool_name] ELSE tracked[k]]

\* SearchAndInject writing the entry before the test of the key
SearchAndInject_Overwrite(tracked, key, error_text, tool_name, resp) ==
    IF key \in DOMAIN tracked
    THEN [tracked |-> Track(tracked, key, error_text, tool_name), key |-> key,
          was_tracked |-> TRUE, requests |-> <<>>,
          solutions |-> 0, outcome |-> "returned", result |-> ContinueResult,
          error_text |-> error_text, entered |-> TRUE]
    ELSE [tracked |-> Track(tracked, key, error_text, tool_name), key |-> key,
          was_tracked |-> FALSE,
          requests |-> ClientSearchRequests(error_text, HOOK_SEARCH_LIMIT, resp),
          error_text |-> error_text, entered |-> TRUE]
             @@ InjectOutcome(ClientSearchResult(resp))

\* the body of _search_and_inject, the key computed
SearchAndInject(tracked, key, error_text, tool_name, resp) ==
    IF key \in DOMAIN tracked
    THEN [tracked |-> tracked, key |-> key, was_tracked |-> TRUE, requests |-> <<>>,
          solutions |-> 0, outcome |-> "returned", result |-> ContinueResult,
          error_text |-> error_text, entered |-> TRUE]
    ELSE [tracked |-> Track(tracked, key, error_text, tool_name), key |-> key,
          was_tracked |-> FALSE,
          requests |-> ClientSearchRequests(error_text, HOOK_SEARCH_LIMIT, resp),
          error_text |-> error_text, entered |-> TRUE]
             @@ InjectOutcome(ClientSearchResult(resp))

\* _search_and_inject on the tracked map `tracked`, the remote answering resp
_search_and_inject(tracked, error_text, tool_name, resp) ==
    SearchAndInject(tracked, KeyOf(error_text), error_text, tool_name, resp)

\* a handler that returns continue before reaching _search_and_inject
EarlyContinue(tracked) ==
    [tracked |-> tracked, key |-> "", was_tracked |-> FALSE, requests |-> <<>>,
     solutions |-> 0, outcome |-> "returned", result |-> ContinueResult, error_text |-> "",
     entered |-> FALSE]

\* handle_tool_error(event, data)
handle_tool_error(tracked, data, resp) ==
    IF ~auto_search THEN EarlyContinue(tracked)
    ELSE _search_and_inject(tracked, ErrorEventText(data),
                            PyStr(Get(data, "tool_name", PStr("unknown"))), resp)

SHELL_TOOLS == {"bash", "Bash", "shell", "run_command"}

MIN_OUTPUT_LEN == 20

\* success as the resolution step of handle_tool_post reads it
PostSuccess(result) ==
    IF result.t = "dict" THEN Truthy(Get(result, "success", PBool(TRUE))) ELSE TRUE

\* Resolved without the comparison of tool names
Resolved_AnyTool(tracked, tool_name, result) ==
    IF auto_submit /\ DOMAIN tracked # {} /\ PostSuccess(result) THEN DOMAIN tracked ELSE {}

\* the keys the resolution step of handle_tool_post collects in `resolved`
Resolved(tracked, tool_name, result) ==
    IF auto_submit /\ DOMAIN tracked # {} /\ PostSuccess(result)
    THEN {k \in DOMAIN tracked : tracked[k].tool_name = tool_name}
    ELSE {}

\* del self.tracked_errors[key] for every resolved key
Unresolved(tracked, resolved) == [k \in DOMAIN tracked \ resolved |-> tracked[k]]

\* PostSearch without the test of the output's length
PostSearch_NoLengthCheck(tracked1, tool_name, output_text, resp) ==
    IF ~auto_search THEN EarlyContinue(tracked1)
    ELSE IF tool_name \notin SHELL_TOOLS THEN EarlyContinue(tracked1)
    ELSE IF ~ExtractOf(output_text).found \/ ExtractOf(output_text).text = ""
    THEN EarlyContinue(tracked1)
    ELSE _search_and_inject(tracked1, ExtractOf(output_text).text, tool_name, resp)

\* handle_tool_post after the resolution step: the checks that lead to the search
PostSearch(tracked1, tool_name, output_text, resp) ==
    IF ~auto_search THEN EarlyContinue(tracked1)
    ELSE IF tool_name \notin SHELL_TOOLS THEN EarlyContinue(tracked1)
    ELSE IF output_text = "" \/ Len(output_text) < MIN_OUTPUT_LEN THEN EarlyContinue(tracked1)
    ELSE IF ~ExtractOf(output_text).found \/ ExtractOf(output_text).text = ""
    THEN EarlyContinue(tracked1)
    ELSE _search_and_inject(tracked1, ExtractOf(output_text).text, tool_name, resp)

PostSteps(tracked, tool_name, result, resolved, resp) ==
    [PostSearch(Unresolved(tracked, resolved), tool_name, _get_output_text(result), resp)
        EXCEPT !.requests = ResolveRequests(resolved) \o @]
        @@ [resolved |-> resolved, after_resolve |-> Unresolved(tracked, resolved)]

\* handle_tool_post(event, data)
handle_tool_post(tracked, data, resp) ==
    PostSteps(tracked, PyStr(Get(data, "tool_name", PStr(""))), Get(data, "result", EmptyDict),
              Resolved(tracked, PyStr(Get(data, "tool_name", PStr(""))),
                       Get(data, "result", EmptyDict)),
              resp)

-----------------------------------------------------------------------------
(* ErrorCacheAPI and ErrorCacheTool                                        *)

\* what ErrorCacheAPI._get / _post return for the remote behaviour resp:
\* the decoded body, or {"error": str(e)} when urlopen or json.loads raised
ApiResult(resp) ==
    IF resp.t = "error" THEN PDict([error |-> PStr("<urlopen error timed out>")])
    ELSE IF ~resp.parsed THEN PDict([error |-> PStr("Expecting value: line 1 column 1 (char 0)")])
    ELSE resp.json

\* ToolResult(success=False, error={"message": ...}) returned by a validation check
Invalid(message) ==
    [requests |-> <<>>, raised |-> FALSE,
     result |-> [success |-> FALSE, message |-> message]]

\* the body of execute's except clause: the exception becomes a failure result
Caught(requests, exc) ==
    [requests |-> requests, raised |-> TRUE,
     result |-> [success |-> FALSE, message |-> exc]]

MIN_ERROR_MESSAGE == 3

DEFAULT_LIMIT == 5

FTS_QUERY_MAX == 200

\* PySlice that cuts nothing off
PySlice_Whole(seq, n) == seq

\* seq[:n] as Python slices it (a negative n counts from the end)
PySlice(seq, n) ==
    IF n >= 0 THEN Prefix(seq, n)
    ELSE IF Len(seq) + n > 0 THEN SubSeq(seq, 1, Len(seq) + n) ELSE <<>>

\* Phase1Questions without the test of the error field
Phase1Questions_NoErrorCheck(results) ==
    IF results.t = "dict"
    THEN LET data == Get(results, "data", results)
         IN  IF data.t = "list" THEN data.v ELSE <<>>
    ELSE <<>>

\* the questions phase 1 yields from what _get returned
Phase1Questions(results) ==
    IF results.t = "dict" /\ ~Truthy(Get(results, "error", PNone))
    THEN LET data == Get(results, "data", results)
         IN  IF data.t = "list" THEN data.v ELSE <<>>
    ELSE <<>>

\* NeedsPhase2 with the comparison off by one
NeedsPhase2_Inclusive(questions, limit) == Len(questions) <= limit

\* the phase-2 request is issued
NeedsPhase2(questions, limit) == Len(questions) < limit

\* the GET /search request of phase 2
FtsRequest(error_msg, remaining, language, framework) ==
    [method |-> "GET", endpoint |-> "/search", q |-> Prefix(error_msg, FTS_QUERY_MAX),
     type |-> "questions", limit |-> remaining,
     language |-> language, framework |-> framework]

\* the list phase 2 would merge, as a value (a list only when the body has one)
FtsList(fts) ==
    IF fts.t = "dict" /\ ~Truthy(Get(fts, "error", PNone))
    THEN LET fts_data == Get(fts, "data", fts)
         IN  IF fts_data.t = "dict" THEN Get(fts_data, "questions", fts_data) ELSE fts_data
    ELSE PNone

\* q.get("id")
IdOf(q) == Get(q, "id", PNone)

\* MergeLoop putting each new question in front
RECURSIVE MergeLoop_Prepend(_, _, _)
MergeLoop_Prepend(questions, seen, fts_qs) ==
    IF fts_qs = <<>> THEN questions
    ELSE LET q == Head(fts_qs)
         IN  IF IdOf(q) \notin seen
             THEN MergeLoop_Prepend(<<q>> \o questions, seen, Tail(fts_qs))
             ELSE MergeLoop_Prepend(questions, seen, Tail(fts_qs))

\* the merge loop: `seen` holds the phase-1 ids and is not extended by the loop
RECURSIVE MergeLoop(_, _, _)
MergeLoop(questions, seen, fts_qs) ==
    IF fts_qs = <<>> THEN questions
    ELSE LET q == Head(fts_qs)
         IN  IF IdOf(q) \notin seen
             THEN MergeLoop(Append(questions, q), seen, Tail(fts_qs))
             ELSE MergeLoop(questions, seen, Tail(fts_qs))

\* the merge raises: q.get on something that is not a dict
MergeRaises(questions, fts_qs) ==
    \/ \E i \in 1..Len(questions) : questions[i].t # "dict"
    \/ \E i \in 1..Len(fts_qs) : fts_qs[i].t # "dict"

SearchMethod(results) ==
    IF Truthy(results) /\ results.t = "dict" /\ Truthy(Get(results, "search_method", PNone))
    THEN "hybrid" ELSE "signature+fts"

\* building one formatted entry raises
FormatEntryRaises(q) ==
    \/ q.t # "dict"
    \/ LET ba == Get(q, "best_answer", PNone) IN Truthy(ba) /\ ba.t # "dict"

FormatEntry(q) ==
    [id |-> IdOf(q), title |-> Get(q, "title", PNone),
     link |-> "https://errorcache.com/questions/" \o PyStr(Get(q, "id", PStr("")))]

\* ErrorCacheTool._search; resp1 and resp2 are the remote's behaviour for each phase
_search(input, resp1, resp2) ==
    LET error_msg == PyStr(Get(input, "error_message", PStr("")))
    IN  IF error_msg = "" \/ Len(error_msg) < MIN_ERROR_MESSAGE
        THEN Invalid("error_message is required (min 3 chars)")
        ELSE
        LET limit     == Get(input, "limit", PInt(DEFAULT_LIMIT)).v
            language  == PyStr(Get(input, "language", PStr("")))
            framework == PyStr(Get(input, "framework", PStr("")))
            req1      == SearchRequest(error_msg, limit)
            results   == ApiResult(resp1)
            questions == Phase1Questions(results)
            phase2    == NeedsPhase2(questions, limit)
            req2      == FtsRequest(error_msg, limit - Len(questions), language, framework)
            requests  == IF phase2 THEN <<req1, req2>> ELSE <<req1>>
            fts_qs    == IF phase2 THEN FtsList(ApiResult(resp2)) ELSE PNone
            merging   == fts_qs.t = "list"
            merged    == IF merging THEN MergeLoop(questions, {IdOf(questions[i]) : i \in 1..Len(questions)}, fts_qs.v)
                         ELSE questions
            shown     == PySlice(merged, limit)
        IN  IF merging /\ MergeRaises(questions, fts_qs.v)
            THEN Caught(requests, "AttributeError")
            ELSE IF merged = <<>>
            THEN [requests |-> requests, raised |-> FALSE,
                  result |-> [success |-> TRUE, message |-> "No solutions found",
                              search_method |-> SearchMethod(results),
                              suggestion |-> "Use submit_solution to share if you solve this error"]]
            ELSE IF \E i \in 1..Len(shown) : FormatEntryRaises(shown[i])
            THEN Caught(requests, "AttributeError")
            ELSE [requests |-> requests, raised |-> FALSE,
                  result |-> [success |-> TRUE, message |-> "",
                              results |-> [i \in 1..Len(shown) |-> FormatEntry(shown[i])],
                              count |-> Len(shown),
                              search_method |-> SearchMethod(results)]]

MIN_ROOT_CAUSE == 20

MIN_FIX_APPROACH == 20

TITLE_MAX == 300

\* a POST response that the `not resp or resp.get("error")` test rejects
PostFailed(resp) == ~Truthy(resp) \/ Truthy(Get(resp, "error", PNone))

\* evaluating `not resp or resp.get("error")` raises: a truthy value without .get
PostTestRaises(resp) == Truthy(resp) /\ resp.t # "dict"

\* the POST /questions/{question_id}/answers part of _submit
SubmitAnswer(input, question_id, earlier, respA) ==
    LET a_req    == [method |-> "POST",
                     endpoint |-> "/questions/" \o PyStr(question_id) \o "/answers",
                     root_cause |-> PyStr(Get(input, "root_cause", PStr(""))),
                     fix_approach |-> PyStr(Get(input, "fix_approach", PStr(""))),
                     has_commands |-> Truthy(Get(input, "commands", PNone))]
        requests == Append(earlier, a_req)
        a_resp   == ApiResult(respA)
    IN  IF PostTestRaises(a_resp) THEN Caught(requests, "AttributeError")
        ELSE IF PostFailed(a_resp)
        THEN [requests |-> requests, raised |-> FALSE,
              result |-> [success |-> FALSE, message |-> "Failed to submit answer"]]
        ELSE IF Get(a_resp, "data", EmptyDict).t # "dict"
        THEN Caught(requests, "AttributeError")
        ELSE [requests |-> requests, raised |-> FALSE,
              result |-> [success |-> TRUE, message |-> "Solution submitted to ErrorCache",
                          question_id |-> question_id,
                          answer_id |-> Get(Get(a_resp, "data", EmptyDict), "id", PStr("unknown"))]]

\* HasQuestionId with the test left out
HasQuestionId_Unchecked(new_id) == TRUE

\* the `if not question_id` test on the ID the created question came back with
HasQuestionId(new_id) == Truthy(new_id)

\* ErrorCacheTool._submit; resps[n] is the remote's behaviour for the n-th request issued
_submit(input, resps) ==
    LET title        == PyStr(Get(input, "title", PStr("")))
        error_sig    == PyStr(Get(input, "error_signature", PStr("")))
        root_cause   == PyStr(Get(input, "root_cause", PStr("")))
        fix_approach == PyStr(Get(input, "fix_approach", PStr("")))
        question_id  == Get(input, "question_id", PNone)
    IN  IF root_cause = "" \/ Len(root_cause) < MIN_ROOT_CAUSE
        THEN Invalid("root_cause required (min 20 chars)")
        ELSE IF fix_approach = "" \/ Len(fix_approach) < MIN_FIX_APPROACH
        THEN Invalid("fix_approach required (min 20 chars)")
        ELSE IF Truthy(question_id)
        THEN SubmitAnswer(input, question_id, <<>>, resps[1])
        ELSE IF title = "" \/ error_sig = ""
        THEN Invalid("title and error_signature required when not providing question_id")
        ELSE
        LET q_req  == [method |-> "POST", endpoint |-> "/questions",
                       title |-> Prefix(title, TITLE_MAX), error_signature |-> error_sig,
                       error_category |-> PyStr(Get(input, "error_category", PStr("other")))]
            q_resp == ApiResult(resps[1])
        IN  IF PostTestRaises(q_resp) THEN Caught(<<q_req>>, "AttributeError")
            ELSE IF PostFailed(q_resp)
            THEN [requests |-> <<q_req>>, raised |-> FALSE,
                  result |-> [success |-> FALSE, message |-> "Failed to create question"]]
            ELSE IF Get(q_resp, "data", EmptyDict).t # "dict"
            THEN Caught(<<q_req>>, "AttributeError")
            ELSE LET new_id == Get(Get(q_resp, "data", EmptyDict), "id", PNone)
                 IN  IF ~HasQuestionId(new_id)
                     THEN [requests |-> <<q_req>>, raised |-> FALSE,
                           result |-> [success |-> FALSE, message |-> "No question ID returned"]]
                     ELSE SubmitAnswer(input, new_id, <<q_req>>, resps[2])

\* VERIFY_RESULTS accepting one more value
VERIFY_RESULTS_Loose == {"pass", "fail", "partial", "maybe"}

VERIFY_RESULTS == {"pass", "fail", "partial"}

\* ErrorCacheTool._verify
_verify(input, resp) ==
    LET answer_id == Get(input, "answer_id", PStr(""))
        result    == PyStr(Get(input, "result", PStr("")))
    IN  IF ~Truthy(answer_id) THEN Invalid("answer_id is required")
        ELSE IF result \notin VERIFY_RESULTS THEN Invalid("result must be pass, fail, or partial")
        ELSE
        LET req  == [method |-> "POST",
                     endpoint |-> "/answers/" \o PyStr(answer_id) \o "/verify",
                     result |-> result,
                     has_evidence |-> Truthy(Get(input, "evidence", PNone))]
            body == ApiResult(resp)
        IN  IF PostTestRaises(body) THEN Caught(<<req>>, "AttributeError")
            ELSE IF PostFailed(body)
            THEN [requests |-> <<req>>, raised |-> FALSE,
                  result |-> [success |-> FALSE, message |-> "Verification failed"]]
            ELSE [requests |-> <<req>>, raised |-> FALSE,
                  result |-> [success |-> TRUE, message |-> "Verification recorded: " \o result,
                              answer_id |-> answer_id]]

\* ErrorCacheTool.execute; resps[n] is the remote's behaviour for the n-th request issued
execute(input, resps) ==
    LET op == PyStr(Get(input, "operation", PNone))
    IN  IF op = "search_errors" THEN _search(input, resps[1], resps[2])
        ELSE IF op = "submit_solution" THEN _submit(input, resps)
        ELSE IF op = "verify_solution" THEN _verify(input, resps[1])
        ELSE Invalid("Unknown operation: " \o op)

-----------------------------------------------------------------------------
(* The inputs and remote behaviours execute is exercised with              *)

MaxLimit == 3

NoField == [k \in {} |-> PNone]

RECURSIVE TextOfLen(_)
TextOfLen(n) ==
    IF n = 0 THEN ""
    ELSE IF n % 2 = 1 THEN "x" \o TextOfLen(n - 1)
    ELSE TextOfLen(n \div 2) \o TextOfLen(n \div 2)

Q5 == PDict([id |-> PStr("q5"), title |-> PStr("timeout")])

MessageOptions ==
    << NoField,
       [error_message |-> PStr("ab")],
       [error_message |-> PStr("abc")],
       [error_message |-> PStr("ModuleNotFoundError: No module named yaml")] >>

\* limit absent (0), or one of -1 .. MaxLimit
LimitOption(l) == IF l = 0 THEN NoField ELSE [limit |-> PInt(l - 2)]

LanguageOptions == << NoField, [language |-> PStr("python")] >>

SearchInput(m, l, g) ==
    PDict([operation |-> PStr("search_errors")]
              @@ MessageOptions[m] @@ LimitOption(l) @@ LanguageOptions[g])

Phase1Responses ==
    << TransportError,
       Unparseable,
       Body(PNone),
       Body(PList(<<Q1>>)),
       Body(PDict([data |-> PList(<<>>)])),
       Body(PDict([data |-> PList(<<Q1>>), search_method |-> PStr("hybrid")])),
       Body(PDict([data |-> PList(<<Q1, Q2>>)])),
       Body(PDict([data |-> PList(<<Q1, Q2, Q3, Q5>>)])),
       Body(PDict([data |-> PList(<<Q2, Q2>>)])),
       Body(PDict([error |-> PStr("rate limited"), data |-> PList(<<Q1>>)])),
       Body(PDict([data |-> PList(<<PInt(7)>>)])) >>

Phase2Responses ==
    << TransportError,
       Unparseable,
       Body(PList(<<Q3>>)),
       Body(PDict([data |-> PDict([questions |-> PList(<<Q2>>)])])),
       Body(PDict([data |-> PList(<<Q1, Q3>>)])),
       Body(PDict([questions |-> PList(<<Q3, Q3>>)])),
       Body(PDict([data |-> PList(<<Q4, Q2, Q3, Q5, Q1>>)])),
       Body(PDict([data |-> PStr("none")])),
       Body(PDict([data |-> PList(<<PStr("q9")>>)])),
       Body(PDict([data |-> PList(<<>>)])),
       Body(PDict([error |-> PStr("rate limited"), data |-> PList(<<Q3>>)])) >>

TextOptions(field) ==
    << NoField,
       [k \in {field} |-> PStr(TextOfLen(MIN_ROOT_CAUSE - 1))],
       [k \in {field} |-> PStr(TextOfLen(MIN_ROOT_CAUSE))] >>

QuestionIdOptions == << NoField, [question_id |-> PStr("")], [question_id |-> PStr("q7")] >>

TitleOptions == << NoField, [title |-> PStr("yaml missing")] >>

SignatureOptions == << NoField, [error_signature |-> PStr("ModuleNotFoundError: yaml")] >>

CommandOptions == << NoField, [commands |-> PList(<<PStr("pip install pyyaml")>>)] >>

SubmitInput(rc, fx, qi, ti, si, co) ==
    PDict([operation |-> PStr("submit_solution")]
              @@ TextOptions("root_cause")[rc] @@ TextOptions("fix_approach")[fx]
              @@ QuestionIdOptions[qi] @@ TitleOptions[ti] @@ SignatureOptions[si]
              @@ CommandOptions[co])

QuestionResponses ==
    << TransportError,
       Unparseable,
       Body(PDict([data |-> PDict([id |-> PStr("q9")])])),
       Body(PDict([data |-> EmptyDict])),
       Body(PDict([data |-> PNone])),
       Body(PDict([id |-> PStr("q9")])),
       Body(PDict([error |-> PStr("bad request")])),
       Body(PList(<<>>)),
       Body(PList(<<PStr("q9")>>)) >>

AnswerResponses ==
    << TransportError,
       Unparseable,
       Body(PDict([data |-> PDict([id |-> PStr("a9")])])),
       Body(PDict([ok |-> PBool(TRUE)])),
       Body(PDict([data |-> PStr("a9")])),
       Body(PNone),
       Body(PInt(1)) >>

AnswerIdOptions == << NoField, [answer_id |-> PStr("")], [answer_id |-> PStr("a1")] >>

ResultOptions ==
    << NoField, [result |-> PStr("pass")], [result |-> PStr("fail")],
       [result |-> PStr("partial")], [result |-> PStr("maybe")] >>

EvidenceOptions == << NoField, [evidence |-> PDict([exit_codes |-> PList(<<PInt(0)>>)])] >>

VerifyInput(ai, re, ev) ==
    PDict([operation |-> PStr("verify_solution")]
              @@ AnswerIdOptions[ai] @@ ResultOptions[re] @@ EvidenceOptions[ev])

OtherInputs ==
    << PDict(NoField),
       PDict([operation |-> PStr("delete_solution"), answer_id |-> PStr("a1")]) >>

Pending(input, r1, r2) == [phase |-> "pending", input |-> input, resps |-> <<r1, r2>>]

\* the execute calls a behaviour may start with
PendingCall(call) ==
    \/ \E m \in 1..Len(MessageOptions), l \in 0..(MaxLimit + 2), g \in 1..Len(LanguageOptions),
          r1 \in 1..Len(Phase1Responses), r2 \in 1..Len(Phase2Responses) :
          call = Pending(SearchInput(m, l, g), Phase1Responses[r1], Phase2Responses[r2])
    \/ \E rc \in 1..3, fx \in 1..3, qi \in 1..Len(QuestionIdOptions), ti \in 1..Len(TitleOptions),
          si \in 1..Len(SignatureOptions), co \in 1..Len(CommandOptions),
          r1 \in 1..Len(QuestionResponses), r2 \in 1..Len(AnswerResponses) :
          call = Pending(SubmitInput(rc, fx, qi, ti, si, co),
                         IF qi = 3 THEN AnswerResponses[r2] ELSE QuestionResponses[r1],
                         AnswerResponses[r2])
    \/ \E ai \in 1..Len(AnswerIdOptions), re \in 1..Len(ResultOptions),
          ev \in 1..Len(EvidenceOptions), r1 \in 1..Len(AnswerResponses) :
          call = Pending(VerifyInput(ai, re, ev), AnswerResponses[r1], TransportError)
    \/ \E o \in 1..Len(OtherInputs) :
          call = Pending(OtherInputs[o], TransportError, TransportError)

-----------------------------------------------------------------------------
\* what a handler invocation leaves in hookCall
CallRecord(kind, data, resp, c) ==
    [kind          |-> kind,
     data          |-> data,
     tool_name     |-> PyStr(Get(data, "tool_name", PStr(IF kind = "tool:error" THEN "unknown" ELSE ""))),
     success       |-> IF kind = "tool:post" THEN PostSuccess(Get(data, "result", EmptyDict)) ELSE TRUE,
     response      |-> IF c.requests # <<>> THEN resp ELSE [t |-> "none"],
     entered       |-> c.entered,
     error_text    |-> c.error_text,
     key           |-> c.key,
     was_tracked   |-> c.was_tracked,
     requests      |-> c.requests,
     solutions     |-> c.solutions,
     outcome       |-> c.outcome,
     result        |-> c.result,
     resolved      |-> c.resolved,
     after_resolve |-> c.after_resolve]

\* the entries a handler invocation adds to hookLog: its requests, with the dedup key
LogEntries(c) == [i \in 1..Len(c.requests) |-> [request |-> c.requests[i], key |-> c.key]]

\* a session of the hook: the instance as mount() builds it
HookInit ==
    /\ auto_search \in BOOLEAN
    /\ auto_submit \in BOOLEAN
    /\ tracked_errors = [k \in {} |-> PNone]
    /\ hookLog = <<>>
    /\ nEvents = 0
    /\ hookCall = [kind |-> "none"]
    /\ toolCall = [phase |-> "none"]
    /\ fnCall = [phase |-> "none"]
    /\ handlers = <<>>

\* one call of the tool, which keeps no state between calls
ToolInit ==
    /\ auto_search = TRUE
    /\ auto_submit = TRUE
    /\ tracked_errors = [k \in {} |-> PNone]
    /\ hookLog = <<>>
    /\ nEvents = 0
    /\ hookCall = [kind |-> "none"]
    /\ PendingCall(toolCall)
    /\ fnCall = [phase |-> "none"]
    /\ handlers = <<>>

\* The hook and the tool never interact: a behaviour exercises one of them.
Init == HookInit \/ ToolInit

\* the state a handler invocation c leaves behind
Deliver(kind, data, resp, c) ==
    /\ tracked_errors' = c.tracked
    /\ hookLog' = hookLog \o LogEntries(c)
    /\ hookCall' = CallRecord(kind, data, resp, c)
    /\ nEvents' = nEvents + 1
    /\ UNCHANGED <<auto_search, auto_submit, toolCall, fnCall, handlers>>

\* a tool:error event is delivered to the hook
HandleToolError ==
    /\ toolCall.phase = "none"
    /\ nEvents < MaxEvents
    /\ \E i \in 1..Len(ErrorEvents), r \in 1..Len(HookResponses) :
          Deliver("tool:error", ErrorEvents[i], HookResponses[r],
                  handle_tool_error(tracked_errors, ErrorEvents[i], HookResponses[r])
                      @@ [resolved |-> {}, after_resolve |-> tracked_errors])

\* a tool:post event is delivered to the hook
HandleToolPost ==
    /\ toolCall.phase = "none"
    /\ nEvents < MaxEvents
    /\ \E i \in 1..Len(PostEvents), r \in 1..Len(HookResponses) :
          Deliver("tool:post", PostEvents[i], HookResponses[r],
                  handle_tool_post(tracked_errors, PostEvents[i], HookResponses[r]))

\* what an execute call c leaves in toolCall
Done(call, c) ==
    [phase     |-> "done",
     input     |-> call.input,
     responses |-> SubSeq(call.resps, 1, Len(c.requests)),
     requests  |-> c.requests,
     raised    |-> c.raised,
     outcome   |-> "returned",
     result    |-> c.result]

\* the pending execute call runs to its result
Execute ==
    /\ toolCall.phase = "pending"
    /\ toolCall' = Done(toolCall, execute(toolCall.input, toolCall.resps))
    /\ UNCHANGED <<hookVars, fnCall, handlers>>

Next == HandleToolError \/ HandleToolPost \/ Execute

Spec == Init /\ [][Next]_vars

-----------------------------------------------------------------------------
(* The stateless functions, each applied once to arguments drawn from a    *)
(* pool: _extract_error_text                                               *)

MaxLines == 12

\* line k of a numbered output: an error line when k is in M
LineText(k, M) ==
    IF k \in M THEN "ValueError: v" \o NatToStr(k) ELSE "step " \o NatToStr(k)

\* an output of n lines whose lines in M match a pattern
NumberedOutput(n, M) == JoinLines([k \in 1..n |-> LineText(k, M)])

NumberedOutputs ==
    {NumberedOutput(n, {}) : n \in 0..MaxLines}
        \cup {NumberedOutput(n, {a, b}) : n \in 1..MaxLines, a \in 1..MaxLines, b \in 1..MaxLines}

\* outputs around the matches of each pattern, the trimming and the line breaks
SpecialOutputs ==
    { "Traceback (most recent call last):\n  File \"x.py\", line 3\nValueError: bad",
      "  \n  Error: first line is indented\nsecond line  \n\n",
      "ok\r\nwarning: x\r\nfatal: disk\r\nFATAL: disk full\r\nbye",
      "cargo: error[E0308]: mismatched types\n --> src/main.rs:4:5",
      "npm ERR_MODULE_NOT_FOUND\ndone",
      "connect ECONNREFUSED 127.0.0.1:5432",
      "a.ts(3,1): error TS2304: Cannot find name 'x'.",
      "3 tests FAILED",
      "webpack: build FAILED after 2 tests",
      "Build failed with 1 error",
      "error: something went wrong",
      "FAILED",
      "   ",
      "" }

\* outputs no line of which matches while the whole text does: the "." of
\* FAILED.*tests? runs over a "\r", where splitlines() breaks the line
BeforePads == <<0, 3, CONTEXT_BEFORE, CONTEXT_BEFORE + 7>>

AfterPads == <<0, 3, CONTEXT_AFTER, CONTEXT_AFTER + 9>>

FallbackOutput(before, after) ==
    TextOfLen(before) \o "FAILED\r to run tests" \o TextOfLen(after)

FallbackOutputs ==
    {FallbackOutput(BeforePads[b], AfterPads[a]) :
        b \in 1..Len(BeforePads), a \in 1..Len(AfterPads)}
        \cup {" y " \o FallbackOutput(CONTEXT_BEFORE - 2, CONTEXT_AFTER - 1) \o " z "}

ExtractInputs == NumberedOutputs \cup SpecialOutputs \cup FallbackOutputs

PendingExtract(call) ==
    \E o \in ExtractInputs :
        call = [phase |-> "pending", fn |-> "_extract_error_text", args |-> <<o>>]

-----------------------------------------------------------------------------
(* ErrorCacheHook._error_key, applied to two error texts that differ only  *)
(* in a source-file path or in line and column numbers                     *)

KeyPaths == <<"/a/x.py", "/b/lib/y.py", "/opt/src/main.cpp", "x.py", "src/a.py", "lib/a.py">>

KeyLineCols == <<":3:7", ":120:45">>

KeyLineNos == <<"3", "4711">>

\* the length of the message before the path
KeyPads == <<0, KEY_MAX - 10>>

\* one error text: a message, a path, a line:col and a line number in prose
KeyText(pad, path, linecol, lineno) ==
    "ValueError: " \o TextOfLen(pad) \o " bad value in File \"" \o path \o "\"" \o linecol
        \o ", Line " \o lineno

KeyTexts ==
    {KeyText(KeyPads[d], KeyPaths[p], KeyLineCols[c], KeyLineNos[n]) :
        d \in 1..Len(KeyPads), p \in 1..Len(KeyPaths),
        c \in 1..Len(KeyLineCols), n \in 1..Len(KeyLineNos)}

\* texts of one message: they differ only in the path and the numbers
SameMessage(d) ==
    {KeyText(KeyPads[d], KeyPaths[p], KeyLineCols[c], KeyLineNos[n]) :
        p \in 1..Len(KeyPaths), c \in 1..Len(KeyLineCols), n \in 1..Len(KeyLineNos)}

\* self._error_key(text), tabulated once over the texts above
KeyTextTable == [t \in KeyTexts |-> _error_key(t)]

PendingKeys(call) ==
    \E d \in 1..Len(KeyPads) : \E a \in SameMessage(d), b \in SameMessage(d) :
        call = [phase |-> "pending", fn |-> "_error_key", args |-> <<a, b>>]

-----------------------------------------------------------------------------
(* _resolve_env and the two mount functions: how api_url and api_key are   *)
(* resolved from the config mapping and the process environment            *)

\* _UNRESOLVED_VAR = \$\{.+\} matched at i ("." matches anything but "\n")
UnresolvedVarAt(value, i) ==
    /\ HasAt(value, i, "${")
    /\ \E j \in (i + 3)..Len(value) :
          /\ Ch(value, j) = "}"
          /\ \A k \in (i + 2)..(j - 1) : Ch(value, k) # "\n"

\* _UNRESOLVED_VAR.search(value)
UnresolvedVarSearch(value) == \E i \in 1..Len(value) : UnresolvedVarAt(value, i)

\* os.environ.get(env_var, default)
EnvironGet(environ, env_var, default) ==
    IF env_var \in DOMAIN environ THEN environ[env_var] ELSE default

_resolve_env(value, env_var, default, environ) ==
    IF Truthy(value) /\ ~UnresolvedVarSearch(value.v) THEN value.v
    ELSE EnvironGet(environ, env_var, default)

DEFAULT_API_URL == "https://api.errorcache.com/api/v1"

\* mount of hooks-errorcache: the api_url and api_key the client is built with
HookMount(config, environ) ==
    [api_url |-> _resolve_env(Get(config, "api_url", PNone), "ERRORCACHE_API_URL",
                              DEFAULT_API_URL, environ),
     api_key |-> _resolve_env(Get(config, "api_key", PNone), "ERRORCACHE_API_KEY",
                              "", environ)]

\* mount of tool-errorcache: the api_url and api_key the API client is built with
ToolMount(config, environ) ==
    [api_url |-> Get(config, "api_url", PStr(DEFAULT_API_URL)).v,
     api_key |-> Get(config, "api_key", PStr("")).v]

ConfigUrlOptions ==
    << NoField,
       [api_url |-> PStr("https://cfg.example/v1")],
       [api_url |-> PStr("${ERRORCACHE_API_URL:-https://api.errorcache.com/api/v1}")],
       [api_url |-> PStr("https://h.example/${TENANT}/v1")],
       [api_url |-> PStr("${}")],
       [api_url |-> PStr("")] >>

ConfigKeyOptions ==
    << NoField,
       [api_key |-> PStr("k-cfg")],
       [api_key |-> PStr("${ERRORCACHE_API_KEY:-}")],
       [api_key |-> PStr("")] >>

EnvUrlOptions == << NoField, [ERRORCACHE_API_URL |-> "https://env.example/v1"] >>

EnvKeyOptions == << NoField, [ERRORCACHE_API_KEY |-> "k-env"], [ERRORCACHE_API_KEY |-> ""] >>

PendingMount(call) ==
    \E m \in {"hooks-errorcache.mount", "tool-errorcache.mount"},
       u \in 1..Len(ConfigUrlOptions), k \in 1..Len(ConfigKeyOptions),
       eu \in 1..Len(EnvUrlOptions), ek \in 1..Len(EnvKeyOptions) :
        call = [phase |-> "pending", fn |-> m,
                args |-> <<PDict(ConfigUrlOptions[u] @@ ConfigKeyOptions[k]),
                           EnvUrlOptions[eu] @@ EnvKeyOptions[ek]>>]

-----------------------------------------------------------------------------
(* ErrorCacheClient.submit: resps[n] is the remote's behaviour for the     *)
(* n-th request the call issues                                            *)

SUBMIT_TITLE_MAX == 300

\* the `if not question_id` test with the return it guards left out
SubmitAborts_Never(question_id) == FALSE

\* `if not question_id: return False`
SubmitAborts(question_id) == ~Truthy(question_id)

\* POST /questions
QuestionRequest(title, error_signature) ==
    [method |-> "POST", endpoint |-> "/questions",
     title |-> Prefix(title, SUBMIT_TITLE_MAX), error_signature |-> error_signature,
     error_category |-> "other"]

\* POST /questions/{question_id}/answers
AnswerRequest(question_id, root_cause, fix_approach) ==
    [method |-> "POST", endpoint |-> "/questions/" \o PyStr(question_id) \o "/answers",
     root_cause |-> root_cause, fix_approach |-> fix_approach]

\* the except clause: whatever was raised, the call returns False
SubmitResult(requests, ok) == [requests |-> requests, result |-> ok]

\* the second half of submit, from the decoded body of the first response
SubmitAnswerStep(req1, q_data, root_cause, fix_approach, resps) ==
    IF q_data.t # "dict" THEN SubmitResult(<<req1>>, FALSE)
    ELSE IF Get(q_data, "data", EmptyDict).t # "dict" THEN SubmitResult(<<req1>>, FALSE)
    ELSE IF SubmitAborts(Get(Get(q_data, "data", EmptyDict), "id", PNone))
    THEN SubmitResult(<<req1>>, FALSE)
    ELSE SubmitResult(<<req1, AnswerRequest(Get(Get(q_data, "data", EmptyDict), "id", PNone),
                                            root_cause, fix_approach)>>,
                      resps[2].t # "error")

submit(title, error_signature, root_cause, fix_approach, resps) ==
    IF title.t # "str" THEN SubmitResult(<<>>, FALSE)
    ELSE IF resps[1].t = "error" THEN SubmitResult(<<QuestionRequest(title.v, error_signature)>>, FALSE)
    ELSE IF ~resps[1].parsed THEN SubmitResult(<<QuestionRequest(title.v, error_signature)>>, FALSE)
    ELSE SubmitAnswerStep(QuestionRequest(title.v, error_signature), resps[1].json,
                          root_cause, fix_approach, resps)

ClientQuestionResponses ==
    QuestionResponses \o
    << Body(PDict([data |-> PDict([id |-> PStr("")])])),
       Body(PDict([data |-> PDict([id |-> PInt(0)])])),
       Body(PDict([data |-> PDict([id |-> PInt(12)])])),
       Body(PDict([error |-> PStr("duplicate"), data |-> PDict([id |-> PStr("q7")])])),
       Body(PNone) >>

ClientTitles == << PStr("ValueError: bad value"), PStr(""), PNone >>

PendingSubmit(call) ==
    \E ti \in 1..Len(ClientTitles), r1 \in 1..Len(ClientQuestionResponses),
       r2 \in 1..Len(AnswerResponses) :
        call = [phase |-> "pending", fn |-> "ErrorCacheClient.submit",
                args |-> <<ClientTitles[ti], "ValueError: bad value in <FILE>",
                           "the value was out of range", "clamp the value first">>,
                resps |-> <<ClientQuestionResponses[r1], AnswerResponses[r2]>>]

\* what a call leaves in fnCall
Returned(call, result) ==
    [phase |-> "done", fn |-> call.fn, args |-> call.args, result |-> result]

\* the idle hook and tool beside a function call
FnIdle ==
    /\ auto_search = TRUE
    /\ auto_submit = TRUE
    /\ tracked_errors = [k \in {} |-> PNone]
    /\ hookLog = <<>>
    /\ nEvents = 0
    /\ hookCall = [kind |-> "none"]
    /\ toolCall = [phase |-> "none"]
    /\ handlers = <<>>

FnInit ==
    /\ FnIdle
    /\ \/ PendingExtract(fnCall)
       \/ PendingKeys(fnCall)
       \/ PendingMount(fnCall)
       \/ PendingSubmit(fnCall)

FnPending(fn) == fnCall.phase = "pending" /\ fnCall.fn = fn

ExtractErrorText ==
    /\ FnPending("_extract_error_text")
    /\ fnCall' = Returned(fnCall, _extract_error_text(fnCall.args[1]))
    /\ UNCHANGED <<hookVars, toolCall, handlers>>

\* the dedup keys of the two texts
ErrorKey ==
    /\ FnPending("_error_key")
    /\ fnCall' = Returned(fnCall, <<KeyTextTable[fnCall.args[1]], KeyTextTable[fnCall.args[2]]>>)
    /\ UNCHANGED <<hookVars, toolCall, handlers>>

MountHook ==
    /\ FnPending("hooks-errorcache.mount")
    /\ fnCall' = Returned(fnCall, HookMount(fnCall.args[1], fnCall.args[2]))
    /\ UNCHANGED <<hookVars, toolCall, handlers>>

MountTool ==
    /\ FnPending("tool-errorcache.mount")
    /\ fnCall' = Returned(fnCall, ToolMount(fnCall.args[1], fnCall.args[2]))
    /\ UNCHANGED <<hookVars, toolCall, handlers>>

\* what a call of submit leaves in fnCall: the responses it consumed, too
Submitted(call, c) ==
    [phase |-> "done", fn |-> call.fn, args |-> call.args,
     responses |-> SubSeq(call.resps, 1, Len(c.requests)),
     requests |-> c.requests, outcome |-> "returned", result |-> c.result]

ClientSubmit ==
    /\ FnPending("ErrorCacheClient.submit")
    /\ fnCall' = Submitted(fnCall, submit(fnCall.args[1], fnCall.args[2], fnCall.args[3],
                                          fnCall.args[4], fnCall.resps))
    /\ UNCHANGED <<hookVars, toolCall, handlers>>

FnNext == ExtractErrorText \/ ErrorKey \/ MountHook \/ MountTool \/ ClientSubmit

FnSpec == FnInit /\ [][FnNext]_vars

-----------------------------------------------------------------------------
(* Overlapping invocations on one hook instance. A handler runs without    *)
(* interruption up to its remote search (handle_tool_error,                *)
(* handle_tool_post and _search_and_inject hold no await before            *)
(* self.client.search); while its search is in flight the host may start   *)
(* another handler on the same instance.                                   *)

MaxHandlers == 3

\* the handler from its first line up to the search request: the tracked map it
\* leaves, the key, and the request if it issues one (no response is read here)
BeforeSearch(kind, data) ==
    IF kind = "tool:error" THEN handle_tool_error(tracked_errors, data, TransportError)
    ELSE handle_tool_post(tracked_errors, data, TransportError)

\* an invocation whose search is in flight
Suspended(kind, c) ==
    [pc |-> "searching", kind |-> kind, key |-> c.key, searched |-> TRUE,
     outcome |-> "none", action |-> "none"]

\* an invocation that has returned (or raised) to the host
Finished(kind, key, searched, o) ==
    [pc |-> "done", kind |-> kind, key |-> key, searched |-> searched,
     outcome |-> o.outcome,
     action |-> IF o.outcome = "returned" THEN o.result.action ELSE "none"]

AsyncInit ==
    /\ auto_search \in BOOLEAN
    /\ auto_submit \in BOOLEAN
    /\ tracked_errors = [k \in {} |-> PNone]
    /\ hookLog = <<>>
    /\ nEvents = 0
    /\ hookCall = [kind |-> "none"]
    /\ toolCall = [phase |-> "none"]
    /\ fnCall = [phase |-> "none"]
    /\ handlers = <<>>

\* the host starts a handler, which runs until it returns or its search is issued
Start(kind, data, c) ==
    /\ Len(handlers) < MaxHandlers
    /\ tracked_errors' = c.tracked
    /\ hookLog' = hookLog \o LogEntries(c)
    /\ nEvents' = nEvents + 1
    /\ handlers' = Append(handlers, IF c.requests = <<>>
                                    THEN Finished(kind, c.key, FALSE, c)
                                    ELSE Suspended(kind, c))
    /\ UNCHANGED <<auto_search, auto_submit, hookCall, toolCall, fnCall>>

StartToolError ==
    \E i \in 1..Len(ErrorEvents) :
        Start("tool:error", ErrorEvents[i], BeforeSearch("tool:error", ErrorEvents[i]))

StartToolPost ==
    \E i \in 1..Len(PostEvents) :
        Start("tool:post", PostEvents[i], BeforeSearch("tool:post", PostEvents[i]))

\* the search of a suspended invocation returns and the handler runs to its end
SearchReturns ==
    \E h \in 1..Len(handlers), r \in 1..Len(HookResponses) :
        /\ handlers[h].pc = "searching"
        /\ handlers' = [handlers EXCEPT ![h] =
                            Finished(handlers[h].kind, handlers[h].key, TRUE,
                                     InjectOutcome(ClientSearchResult(HookResponses[r])))]
        /\ UNCHANGED <<hookVars, toolCall, fnCall>>

AsyncNext == StartToolError \/ StartToolPost \/ SearchReturns

AsyncSpec == AsyncInit /\ [][AsyncNext]_vars

-----------------------------------------------------------------------------
(* Properties                                                              *)

Operation == PyStr(Get(toolCall.input, "operation", PNone))

SearchDone == toolCall.phase = "done" /\ Operation = "search_errors"

SubmitDone == toolCall.phase = "done" /\ Operation = "submit_solution"

VerifyDone == toolCall.phase = "done" /\ Operation = "verify_solution"

HookCalled == hookCall.kind # "none"

\* C1: within one session the remote search is never issued twice for the same
\* dedup key, over any sequence of tool:error and tool:post events.
C1_NeverSearchedTwice ==
    \A i, j \in 1..Len(hookLog) : i # j => hookLog[i].key # hookLog[j].key

\* the number of usable results a phase-1 response carries (0 when it failed)
UsableCount(resp) ==
    IF resp.t = "error" THEN 0
    ELSE IF ~resp.parsed THEN 0
    ELSE IF resp.json.t # "dict" THEN 0
    ELSE IF Truthy(Get(resp.json, "error", PNone)) THEN 0
    ELSE IF "data" \in DOMAIN resp.json.v /\ resp.json.v["data"].t = "list"
    THEN Len(resp.json.v["data"].v)
    ELSE 0

RequestedLimit == Get(toolCall.input, "limit", PInt(DEFAULT_LIMIT)).v

\* C2: in search_errors the phase-2 request (GET /search) is issued if and only if
\* phase 1 yielded k < limit usable results, and it carries limit - k.
C2_Phase2IffShort ==
    (SearchDone /\ toolCall.requests # <<>>) =>
        /\ toolCall.requests[1].endpoint = "/search/similar"
        /\ Len(toolCall.requests) <= 2
        /\ (Len(toolCall.requests) = 2) <=> (UsableCount(toolCall.responses[1]) < RequestedLimit)
        /\ Len(toolCall.requests) = 2 =>
              /\ toolCall.requests[2].endpoint = "/search"
              /\ toolCall.requests[2].limit = RequestedLimit - UsableCount(toolCall.responses[1])

\* a search whose phase 1 yielded one result of three asked for, so phase 2 asks for two
C2_Witness ==
    /\ SearchDone
    /\ Len(toolCall.requests) = 2
    /\ UsableCount(toolCall.responses[1]) = 1
    /\ RequestedLimit = 3
    /\ toolCall.requests[2].limit = 2

\* C3: the merged result list of search_errors holds no two entries with the same
\* question ID, whatever the two responses are.
C3_NoDuplicateIds ==
    (SearchDone /\ "results" \in DOMAIN toolCall.result) =>
        \A i, j \in 1..Len(toolCall.result.results) :
            i # j => toolCall.result.results[i].id # toolCall.result.results[j].id

\* the ID a POST /questions response hands back (None when it hands back none)
CreatedId(resp) ==
    IF resp.t = "error" THEN PNone
    ELSE IF ~resp.parsed THEN PNone
    ELSE IF resp.json.t # "dict" THEN PNone
    ELSE IF Truthy(Get(resp.json, "error", PNone)) THEN PNone
    ELSE IF Get(resp.json, "data", EmptyDict).t # "dict" THEN PNone
    ELSE Get(Get(resp.json, "data", EmptyDict), "id", PNone)

SuppliedId == Get(toolCall.input, "question_id", PNone)

AnswerEndpoint(id) == "/questions/" \o PyStr(id) \o "/answers"

\* C4: in submit_solution the answer POST is issued only with a question ID in hand:
\* without question_id, POST /questions goes first and the answer POST follows only if
\* it returned an ID (else a failure result, no answer POST); with question_id, no
\* POST /questions is issued.
C4_AnswerOnlyWithId ==
    SubmitDone =>
        LET reqs    == toolCall.requests
            creates == {i \in 1..Len(reqs) : reqs[i].endpoint = "/questions"}
            answers == {i \in 1..Len(reqs) : reqs[i].endpoint # "/questions"}
        IN  /\ \A i \in 1..Len(reqs) : reqs[i].method = "POST"
            /\ Truthy(SuppliedId) =>
                  /\ creates = {}
                  /\ \A i \in answers : reqs[i].endpoint = AnswerEndpoint(SuppliedId)
            /\ ~Truthy(SuppliedId) =>
                  /\ reqs # <<>> => creates = {1}
                  /\ \A i \in answers :
                        /\ i = 2
                        /\ Truthy(CreatedId(toolCall.responses[1]))
                        /\ reqs[i].endpoint = AnswerEndpoint(CreatedId(toolCall.responses[1]))
                  /\ (reqs = <<>> \/ ~Truthy(CreatedId(toolCall.responses[1]))) =>
                        answers = {} /\ ~toolCall.result.success

\* a submission without question_id that created the question and then posted the answer
C4_Witness ==
    /\ SubmitDone
    /\ ~Truthy(SuppliedId)
    /\ Len(toolCall.requests) = 2
    /\ toolCall.requests[2].endpoint = "/questions/q9/answers"
    /\ toolCall.result.success

FieldLen(field) == Len(PyStr(Get(toolCall.input, field, PStr(""))))

\* the local validation failures of the tool, read off the input
LocallyInvalid ==
    \/ Operation \notin {"search_errors", "submit_solution", "verify_solution"}
    \/ Operation = "search_errors" /\ FieldLen("error_message") < 3
    \/ /\ Operation = "submit_solution"
       /\ \/ FieldLen("root_cause") < 20
          \/ FieldLen("fix_approach") < 20
          \/ ~Truthy(SuppliedId) /\ (FieldLen("title") = 0 \/ FieldLen("error_signature") = 0)
    \/ /\ Operation = "verify_solution"
       /\ \/ ~Truthy(Get(toolCall.input, "answer_id", PStr("")))
          \/ PyStr(Get(toolCall.input, "result", PStr(""))) \notin {"pass", "fail", "partial"}

\* C5: every local validation failure of the tool returns a failure result
\* (success = false) without issuing any network request.
C5_ValidationNoNetwork ==
    (toolCall.phase = "done" /\ LocallyInvalid) =>
        /\ ~toolCall.result.success
        /\ ~toolCall.raised
        /\ toolCall.requests = <<>>

\* verify_solution with an answer_id and result = "maybe", refused before any request
C5_Witness ==
    /\ VerifyDone
    /\ Truthy(Get(toolCall.input, "answer_id", PStr("")))
    /\ PyStr(Get(toolCall.input, "result", PStr(""))) = "maybe"
    /\ ~toolCall.result.success
    /\ toolCall.requests = <<>>

\* the tracked keys recorded for the tool that has just completed
Matching(tool) == {k \in DOMAIN tracked_errors : tracked_errors[k].tool_name = tool}

\* C6: on a tool:post event with auto_submit enabled and the completion reporting
\* success, the resolution step removes exactly the tracked errors recorded for the
\* completed tool and leaves every other entry unchanged; when the completion
\* reports failure it removes nothing.
C6_ResolutionStep ==
    [][ (hookCall'.kind = "tool:post" /\ nEvents' = nEvents + 1) =>
          /\ (auto_submit /\ hookCall'.success) =>
                /\ hookCall'.resolved = Matching(hookCall'.tool_name)
                /\ DOMAIN hookCall'.after_resolve
                       = DOMAIN tracked_errors \ Matching(hookCall'.tool_name)
                /\ \A k \in DOMAIN tracked_errors \ Matching(hookCall'.tool_name) :
                      /\ hookCall'.after_resolve[k] = tracked_errors[k]
                      /\ k \in DOMAIN tracked_errors'
                      /\ tracked_errors'[k] = tracked_errors[k]
          /\ ~hookCall'.success =>
                /\ hookCall'.resolved = {}
                /\ hookCall'.after_resolve = tracked_errors
                /\ \A k \in DOMAIN tracked_errors :
                      k \in DOMAIN tracked_errors' /\ tracked_errors'[k] = tracked_errors[k]
      ]_vars

\* a successful completion that resolved some tracked errors and left others tracked
C6_Witness ==
    /\ hookCall.kind = "tool:post"
    /\ auto_submit
    /\ hookCall.success
    /\ hookCall.resolved # {}
    /\ DOMAIN hookCall.after_resolve # {}

\* C7: no failure is fatal: every tool:error event, tool:post event and execute call
\* returns a normal result value and never raises, whatever the remote service does.
C7_NeverRaises ==
    /\ HookCalled => hookCall.outcome = "returned"
    /\ toolCall.phase = "done" => toolCall.outcome = "returned"

\* C8: when the remote search fails, search returns an empty sequence and the
\* search-and-inject procedure returns continue; the procedure returns inject_context
\* if and only if the key was not already tracked and the search returned results.
C8_InjectIffResults ==
    (HookCalled /\ hookCall.entered) =>
        /\ (hookCall.response.t = "error") =>
              /\ hookCall.solutions = 0
              /\ hookCall.outcome = "returned"
              /\ hookCall.result.action = "continue"
        /\ (hookCall.outcome = "returned" /\ hookCall.result.action = "inject_context")
              <=> (~hookCall.was_tracked /\ hookCall.solutions > 0)

\* C9: there is no retry: within one logical operation each endpoint is requested at
\* most once (a hook event: one search GET; search_errors: one GET per phase;
\* submit_solution: one POST /questions and one answer POST; verify_solution: one POST).
C9_NoRetry ==
    /\ HookCalled =>
          /\ Len(hookCall.requests) <= 1
          /\ \A i \in 1..Len(hookCall.requests) :
                hookCall.requests[i].endpoint = "/search/similar"
    /\ toolCall.phase = "done" =>
          /\ \A i, j \in 1..Len(toolCall.requests) :
                i # j => toolCall.requests[i].endpoint # toolCall.requests[j].endpoint
          /\ Len(toolCall.requests) <= 2
          /\ SearchDone =>
                \A i \in 1..Len(toolCall.requests) :
                    toolCall.requests[i].endpoint \in {"/search/similar", "/search"}
          /\ SubmitDone =>
                Cardinality({i \in 1..Len(toolCall.requests) :
                                toolCall.requests[i].endpoint # "/questions"}) <= 1
          /\ VerifyDone => Len(toolCall.requests) <= 1

\* a hook event whose search met a transport error and was issued once
C9_Witness ==
    /\ HookCalled
    /\ hookCall.response.t = "error"
    /\ Len(hookCall.requests) = 1

\* C10: a tracked error is never submitted automatically: the hook issues no POST,
\* whatever the events and the auto_search / auto_submit configuration.
C10_HookNeverPosts ==
    /\ \A i \in 1..Len(hookLog) : hookLog[i].request.method = "GET"
    /\ HookCalled => \A i \in 1..Len(hookCall.requests) : hookCall.requests[i].method = "GET"

\* a completion that resolved a tracked error in a session that has searched
C10_Witness ==
    /\ hookCall.kind = "tool:post"
    /\ hookCall.resolved # {}
    /\ hookLog # <<>>

ExtractDone == fnCall.phase = "done" /\ fnCall.fn = "_extract_error_text"

\* the lines of the trimmed output, as the extractor splits them
TrimmedLines == SplitLines(Strip(fnCall.args[1]))

\* the positions of the lines that match a pattern
MatchingLines == {k \in 1..Len(TrimmedLines) : AnyPattern(TrimmedLines[k])}

IsSubstring(a, b) == \E i \in 1..(Len(b) - Len(a) + 1) : SubSeq(b, i, i + Len(a) - 1) = a

\* C11 (as stated): for every input with a line matching an error pattern,
\* _extract_error_text returns a signature that contains that line, for every
\* such line wherever it occurs.
C11_EveryMatchingLine ==
    ExtractDone =>
        \A k \in MatchingLines :
            fnCall.result.found /\ IsSubstring(TrimmedLines[k], fnCall.result.text)

\* C11 (amended): for every input with a line matching an error pattern,
\* _extract_error_text returns a signature that contains the first such line and
\* every matching line among the nine lines after it.
C11_FirstMatchingLine ==
    (ExtractDone /\ MatchingLines # {}) =>
        /\ fnCall.result.found
        /\ \A k \in MatchingLines :
              k <= Min(MatchingLines) + 9 => IsSubstring(TrimmedLines[k], fnCall.result.text)

\* two matching lines, the second within nine lines of the first, both returned
C11_Witness ==
    /\ ExtractDone
    /\ Cardinality(MatchingLines) = 2
    /\ Max(MatchingLines) = Min(MatchingLines) + 9
    /\ fnCall.result.found
    /\ IsSubstring(TrimmedLines[Max(MatchingLines)], fnCall.result.text)

\* the last line the capture reaches from the first matching line
CaptureEnd ==
    IF Min(MatchingLines) + 9 < Len(TrimmedLines)
    THEN Min(MatchingLines) + 9 ELSE Len(TrimmedLines)

\* C12: on the line-capture path _extract_error_text returns at most 10 lines: the
\* consecutive lines from the first matching line (included) to the end of the
\* input or the tenth line, whichever comes first.
C12_CaptureBound ==
    (ExtractDone /\ MatchingLines # {}) =>
        /\ fnCall.result.found
        /\ Len(SplitLines(fnCall.result.text)) <= 10
        /\ fnCall.result.text
              = JoinLines(SubSeq(TrimmedLines, Min(MatchingLines), CaptureEnd))

\* a capture cut at the tenth line with input left over
C12_Witness ==
    /\ ExtractDone
    /\ MatchingLines # {}
    /\ Min(MatchingLines) + 9 < Len(TrimmedLines)
    /\ Len(SplitLines(fnCall.result.text)) = 10

\* the patterns that match somewhere in the whole output
MatchingPatterns == {p \in 1..NumPatterns : PatternSearch(p, fnCall.args[1]) > 0}

\* the match the fallback takes, as 0-based [s, e)
MatchStart == PatternSearch(Min(MatchingPatterns), fnCall.args[1]) - 1

MatchStop == PatternMatchEnd(Min(MatchingPatterns), fnCall.args[1], MatchStart + 1)

\* the text of output[max(0, s - 200) : min(len, e + 500)]
WindowText(output, s, e) ==
    SubSeq(output,
           (IF s - 200 > 0 THEN s - 200 ELSE 0) + 1,
           IF e + 500 < Len(output) THEN e + 500 ELSE Len(output))

InWindow(output, s, e, text) ==
    /\ text = Strip(WindowText(output, s, e))
    /\ Len(text) <= 200 + (e - s) + 500
    /\ IsSubstring(SubSeq(output, s + 1, e), text)

\* C19: when no line triggers capture but a pattern matches in the whole text at
\* [s, e), _extract_error_text returns the text of [max(0, s - 200), min(len, e + 500))
\* (trimmed), so at most 200 characters before and 500 after the match; when nothing
\* matches it returns absent.
C19_FallbackWindow ==
    (ExtractDone /\ MatchingLines = {}) =>
        IF MatchingPatterns = {} THEN ~fnCall.result.found
        ELSE /\ fnCall.result.found
             /\ InWindow(fnCall.args[1], MatchStart, MatchStop, fnCall.result.text)

\* a fallback whose window is clipped on neither side by the input bounds
C19_Witness ==
    /\ ExtractDone
    /\ MatchingLines = {}
    /\ MatchingPatterns # {}
    /\ MatchStart > 200
    /\ MatchStop + 500 < Len(fnCall.args[1])
    /\ Len(fnCall.result.text) = 200 + (MatchStop - MatchStart) + 500

KeyDone == fnCall.phase = "done" /\ fnCall.fn = "_error_key"

\* C13: _error_key maps any two error texts that differ only in a source-file path
\* or in a line/column number (":line:col" or "line n") to the same dedup key, and
\* the key is never longer than 200 characters.
C13_SameKey ==
    KeyDone =>
        /\ fnCall.result[1] = fnCall.result[2]
        /\ Len(fnCall.result[1]) <= 200
        /\ Len(fnCall.result[2]) <= 200

\* C14: the search_method field of a search_errors result reports the methods used
\* for that call: it tells a call that issued only the phase-1 signature search from
\* one that also issued the phase-2 full-text search ("signature+fts").
C14_MethodUsed ==
    (SearchDone /\ "search_method" \in DOMAIN toolCall.result) =>
        (toolCall.result.search_method = "signature+fts") <=> (Len(toolCall.requests) = 2)

\* the list a phase-2 response offers for merging (empty when it failed)
Phase2Entries(resp) ==
    IF resp.t = "error" THEN <<>>
    ELSE IF ~resp.parsed THEN <<>>
    ELSE IF resp.json.t # "dict" THEN <<>>
    ELSE IF Truthy(Get(resp.json, "error", PNone)) THEN <<>>
    ELSE LET d == Get(resp.json, "data", resp.json)
             l == IF d.t = "dict" THEN Get(d, "questions", d) ELSE d
         IN  IF l.t = "list" THEN l.v ELSE <<>>

\* the list a phase-1 response yields (empty when it failed)
Phase1Entries(resp) ==
    IF UsableCount(resp) = 0 THEN <<>> ELSE resp.json.v["data"].v

\* a search that passed validation and to which neither phase contributed an entry
NothingFound ==
    /\ SearchDone
    /\ toolCall.requests # <<>>
    /\ UsableCount(toolCall.responses[1]) = 0
    /\ Len(toolCall.requests) = 2 => Phase2Entries(toolCall.responses[2]) = <<>>

\* C16: when search_errors passes validation and the merged results are none - also
\* when both remote calls fail with a transport error - it returns a success result
\* with the "No solutions found" message and a suggestion to submit, never a failure.
C16_NoSolutionsIsSuccess ==
    NothingFound =>
        /\ toolCall.result.success
        /\ ~toolCall.raised
        /\ toolCall.result.message = "No solutions found"
        /\ "suggestion" \in DOMAIN toolCall.result
        /\ "results" \notin DOMAIN toolCall.result

\* both phases met a transport error and the call returned the success result
C16_Witness ==
    /\ NothingFound
    /\ Len(toolCall.requests) = 2
    /\ toolCall.responses[1].t = "error"
    /\ toolCall.responses[2].t = "error"
    /\ toolCall.result.success
    /\ toolCall.result.message = "No solutions found"

\* C17: in the merged search_errors result every phase-1 result precedes every
\* result contributed by phase 2, and the phase-1 results keep their order.
C17_Phase1First ==
    (SearchDone /\ "results" \in DOMAIN toolCall.result) =>
        LET p1  == Phase1Entries(toolCall.responses[1])
            p2  == IF Len(toolCall.requests) = 2
                   THEN Phase2Entries(toolCall.responses[2]) ELSE <<>>
            res == toolCall.result.results
        IN  \A i \in 1..Len(res) :
                IF i <= Len(p1)
                THEN /\ res[i].id = Get(p1[i], "id", PNone)
                     /\ res[i].title = Get(p1[i], "title", PNone)
                ELSE \E j \in 1..Len(p2) : res[i].id = Get(p2[j], "id", PNone)

\* a result of two phase-1 entries followed by one that phase 2 contributed
C17_Witness ==
    /\ SearchDone
    /\ "results" \in DOMAIN toolCall.result
    /\ Len(Phase1Entries(toolCall.responses[1])) = 2
    /\ Len(toolCall.result.results) = 3
    /\ toolCall.result.results[1].id # toolCall.result.results[2].id
    /\ toolCall.result.results[3].id = PStr("q3")

MountDone ==
    fnCall.phase = "done" /\ fnCall.fn \in {"hooks-errorcache.mount", "tool-errorcache.mount"}

\* the text holds a ${...} placeholder
HasPlaceholder(v) ==
    \E i \in 1..Len(v), j \in 1..Len(v) :
        j > i + 2 /\ SubSeq(v, i, i + 1) = "${" /\ Ch(v, j) = "}"

\* explicit config value > environment variable > default, a value that is missing,
\* empty or holds a placeholder counting as absent
Precedence(config, field, environ, env_var, default) ==
    IF /\ field \in DOMAIN config.v
       /\ config.v[field].v # ""
       /\ ~HasPlaceholder(config.v[field].v)
    THEN config.v[field].v
    ELSE IF env_var \in DOMAIN environ THEN environ[env_var] ELSE default

\* C15: in both the hook and the tool, api_url and api_key are resolved with
\* precedence explicit config value > environment variable > hardcoded default, an
\* explicit value holding an unresolved ${VAR:-default} placeholder counting as absent.
C15_ConfigPrecedence ==
    MountDone =>
        /\ fnCall.result.api_url
              = Precedence(fnCall.args[1], "api_url", fnCall.args[2], "ERRORCACHE_API_URL",
                           "https://api.errorcache.com/api/v1")
        /\ fnCall.result.api_key
              = Precedence(fnCall.args[1], "api_key", fnCall.args[2], "ERRORCACHE_API_KEY", "")

ClientSubmitDone == fnCall.phase = "done" /\ fnCall.fn = "ErrorCacheClient.submit"

\* the POST got a response (urlopen did not raise)
Answered(resp) == resp.t # "error"

\* the ID a question-creation response yields (None when it yields none)
YieldedId(resp) ==
    IF resp.t = "error" THEN PNone
    ELSE IF ~resp.parsed THEN PNone
    ELSE IF resp.json.t # "dict" THEN PNone
    ELSE IF Get(resp.json, "data", EmptyDict).t # "dict" THEN PNone
    ELSE Get(Get(resp.json, "data", EmptyDict), "id", PNone)

\* C18: the hook client's submit issues two sequential POSTs (create the question,
\* then the answer under the returned ID); the answer POST is issued only if the
\* creation succeeded and yielded a non-empty ID; it returns true only when both
\* POSTs succeeded, and false (never raising) on any failure.
C18_SubmitSequence ==
    ClientSubmitDone =>
        LET reqs == fnCall.requests
        IN  /\ Len(reqs) <= 2
            /\ \A i \in 1..Len(reqs) : reqs[i].method = "POST"
            /\ Len(reqs) >= 1 => reqs[1].endpoint = "/questions"
            /\ Len(reqs) = 2 =>
                  /\ Answered(fnCall.responses[1])
                  /\ Truthy(YieldedId(fnCall.responses[1]))
                  /\ reqs[2].endpoint = AnswerEndpoint(YieldedId(fnCall.responses[1]))
            /\ fnCall.outcome = "returned"
            /\ fnCall.result \in BOOLEAN
            /\ fnCall.result <=> (Len(reqs) = 2 /\ Answered(fnCall.responses[2]))

\* a submission whose question was created and whose answer POST then failed
C18_Witness ==
    /\ ClientSubmitDone
    /\ Len(fnCall.requests) = 2
    /\ fnCall.requests[2].endpoint = "/questions/q9/answers"
    /\ ~Answered(fnCall.responses[2])
    /\ fnCall.result = FALSE

\* the four conditions of a tool:post search, read off the event
SearchConditions(search, data) ==
    /\ search
    /\ Get(data, "tool_name", PStr("")) \in
          {PStr("bash"), PStr("Bash"), PStr("shell"), PStr("run_command")}
    /\ Len(_get_output_text(Get(data, "result", EmptyDict))) >= 20
    /\ ExtractOf(_get_output_text(Get(data, "result", EmptyDict))).found

\* the step is the handling of one event of this kind
Handled(kind) == nEvents' = nEvents + 1 /\ hookCall'.kind = kind

\* C20: a tool:post event leads to a remote search only if auto_search is enabled, the
\* tool is one of bash, Bash, shell, run_command, the flattened output has at least 20
\* characters and extraction yields a signature; otherwise the handler returns continue
\* and adds no key to the tracked set. With auto_search disabled, neither tool:error
\* nor tool:post issues a search or adds a tracked entry.
C20_SearchGate ==
    [][ /\ Handled("tool:post") =>
              /\ hookCall'.requests # <<>> => SearchConditions(auto_search, hookCall'.data)
              /\ ~SearchConditions(auto_search, hookCall'.data) =>
                    /\ hookCall'.requests = <<>>
                    /\ hookCall'.outcome = "returned"
                    /\ hookCall'.result.action = "continue"
                    /\ DOMAIN tracked_errors' \subseteq DOMAIN tracked_errors
        /\ (~auto_search /\ (Handled("tool:error") \/ Handled("tool:post"))) =>
              /\ hookCall'.requests = <<>>
              /\ Len(hookLog') = Len(hookLog)
              /\ DOMAIN tracked_errors' \subseteq DOMAIN tracked_errors
      ]_vars

\* a completion of a shell tool whose output, one character short, was not searched
C20_Witness ==
    /\ hookCall.kind = "tool:post"
    /\ auto_search
    /\ hookCall.tool_name = "shell"
    /\ Len(_get_output_text(Get(hookCall.data, "result", EmptyDict))) = 19
    /\ ExtractOf(_get_output_text(Get(hookCall.data, "result", EmptyDict))).found
    /\ hookCall.requests = <<>>
    /\ hookCall.result.action = "continue"

\* the last handler went through the search-and-inject procedure
Entered == HookCalled /\ hookCall.entered

\* the entry the procedure writes for the event it was called for
NewEntry == [error_text |-> hookCall.error_text, tool_name |-> hookCall.tool_name]

\* C21: entered with a key that is already tracked, the search-and-inject procedure
\* returns continue, issues no remote call and leaves the tracked set as it was (the
\* existing entry's error_text and tool_name are kept); entered with an untracked key,
\* the key is recorded and stays tracked whatever the search returns or raises.
C21_TrackedKeyNoOp ==
    Entered =>
        /\ hookCall.was_tracked <=> hookCall.key \in DOMAIN hookCall.after_resolve
        /\ hookCall.was_tracked =>
              /\ hookCall.outcome = "returned"
              /\ hookCall.result.action = "continue"
              /\ hookCall.requests = <<>>
              /\ tracked_errors = hookCall.after_resolve
        /\ ~hookCall.was_tracked =>
              /\ Len(hookCall.requests) = 1
              /\ DOMAIN tracked_errors = DOMAIN hookCall.after_resolve \cup {hookCall.key}
              /\ tracked_errors[hookCall.key] = NewEntry
              /\ \A k \in DOMAIN hookCall.after_resolve :
                    tracked_errors[k] = hookCall.after_resolve[k]

\* an event of another tool with another text met its key already tracked
C21_Witness ==
    /\ Entered
    /\ hookCall.was_tracked
    /\ tracked_errors[hookCall.key] # NewEntry
    /\ tracked_errors[hookCall.key].tool_name # hookCall.tool_name

\* C23: with auto_submit disabled the tracked-error set only grows (no tool:error or
\* tool:post event removes a key or changes its entry), so over any event sequence
\* each dedup key is searched at most once in the session.
C23_OnlyGrows ==
    /\ [][ ~auto_submit =>
              \A k \in DOMAIN tracked_errors :
                  k \in DOMAIN tracked_errors' /\ tracked_errors'[k] = tracked_errors[k]
         ]_vars
    /\ [](~auto_submit =>
              /\ \A i, j \in 1..Len(hookLog) : i # j => hookLog[i].key # hookLog[j].key
              /\ \A i \in 1..Len(hookLog) : hookLog[i].key \in DOMAIN tracked_errors)

\* a successful completion of the tool whose error is tracked, carrying that error
\* again: the key is still tracked and is not searched a second time
C23_Witness ==
    /\ ~auto_submit
    /\ hookCall.kind = "tool:post"
    /\ hookCall.success
    /\ hookCall.entered
    /\ hookCall.was_tracked
    /\ tracked_errors[hookCall.key].tool_name = hookCall.tool_name
    /\ Len(hookLog) >= 2

\* a search_errors call that returned a success result listing entries
Listed == SearchDone /\ toolCall.result.success /\ "results" \in DOMAIN toolCall.result

\* C24: for every positive limit and every pair of remote responses (a phase-2 response
\* with more items than the remaining capacity included), a successful search_errors
\* result lists at most limit entries and its count field is the number of entries
\* listed.
C24_AtMostLimit ==
    (Listed /\ RequestedLimit > 0) =>
        /\ Len(toolCall.result.results) <= RequestedLimit
        /\ toolCall.result.count = Len(toolCall.result.results)

\* phase 2 was asked for one entry and answered with five new ones: two are listed
C24_Witness ==
    /\ Listed
    /\ RequestedLimit = 2
    /\ Len(toolCall.requests) = 2
    /\ toolCall.requests[2].limit = 1
    /\ Len(Phase2Entries(toolCall.responses[2])) = 5
    /\ Len(toolCall.result.results) = 2
    /\ toolCall.result.count = 2

\* the invocations whose search for key k is in flight
InFlight(k) == {h \in 1..Len(handlers) : handlers[h].pc = "searching" /\ handlers[h].key = k}

=============================================================================
